---- MODULE Spec2Model ----
(***************************************************************************)
(* Nested payload filtering of lib/segment (query_optimization/            *)
(* nested_filter.rs): the boolean combinators over per-element bit         *)
(* vectors, the top-level merge, and the per-element matcher compiler.     *)
(*                                                                         *)
(* A bit vector (bitvec::BitVec) is a sequence of BOOLEAN.  An             *)
(* Option<BitVec> is the record None or Some(v).  A condition is a record  *)
(* tagged by "kind"; the checker compiled from a condition is modelled by  *)
(* the condition itself, and calling it is nested_condition_converter.     *)
(* The functions are pure; a behaviour is one call: Init draws the         *)
(* arguments, the action applies the function and records what it          *)
(* returned.  debug_assert! panics in a build with debug assertions and    *)
(* is skipped in a release build; the parameter dbg is that build flag.    *)
(***************************************************************************)
EXTENDS Integers, Sequences, FiniteSets

VARIABLES
    op,               \* the function called
    point_id,         \* the point under evaluation
    elems,            \* element count of the addressed array in the point's payload
    nested_checkers,  \* argument of merge / find_indices_*: the checkers
    nested_negate,    \* argument of merge_nested_matching_indices
    condition,        \* argument of nested_condition_converter
    pc,               \* "call" before the call, "done" after it, "panic" when it panicked
    verdict,          \* bool returned by the merged condition checker
    bits,             \* BitVec returned (find_indices_matching_all/none, converter)
    combined_mask,    \* Option<BitVec> returned by find_indices_matching_any_conditions
    bitvecs,          \* the Vec `bitvecs` of the Nested closure before the final reduce
    assert_failed     \* which debug assertion failed, "" when none

vars == <<op, point_id, elems, nested_checkers, nested_negate, condition, pc,
          verdict, bits, combined_mask, bitvecs, assert_failed>>

\* ---------------------------------------------------------------- bounds
MaxCheckers == 3    \* longest checker list handed to merge / find_indices_*
MaxBits == 6        \* total number of bits of the vectors of one checker list
MaxElems == 2       \* longest nested array of a point (Nested evaluation)
MaxConds == 2       \* conditions of one Nested sub-filter, all groups together
MaxPointId == 1     \* point ids are 0..MaxPointId

PointIds == 0..MaxPointId

\* ---------------------------------------------------------------- values
None == [some |-> FALSE]
Some(v) == [some |-> TRUE, val |-> v]

Field(b) == [kind |-> "Field", bits |-> b]
IsEmpty(b) == [kind |-> "IsEmpty", bits |-> b]
IsNull(b) == [kind |-> "IsNull", bits |-> b]
HasId(ids) == [kind |-> "HasId", ids |-> ids]
Nested(m, mn, s) == [kind |-> "Nested", must |-> m, must_not |-> mn, should |-> s]

Ok(v) == [panic |-> "", val |-> v]
Panic(what) == [panic |-> what, val |-> <<>>]

\* ---------------------------------------------------------------- bitvec
\* acc & x of bitvec: the result has the length of acc; x is zero-extended.
BitAnd(acc, x) == [i \in 1..Len(acc) |-> acc[i] /\ i <= Len(x) /\ x[i]]

\* acc | x of bitvec: the result has the length of acc; x is zero-extended.
BitOr(acc, x) == [i \in 1..Len(acc) |-> acc[i] \/ (i <= Len(x) /\ x[i])]

\* the complement left out
BitNot_identity(mask) == mask

\* !mask
BitNot(mask) == [i \in 1..Len(mask) |-> ~mask[i]]

count_ones(v) == Cardinality({i \in 1..Len(v) : v[i]})

\* BitVec::default()
BitVecDefault == <<>>

\* ---------------------------------------------------------------- checkers
\* nested_check_field_condition, check_nested_is_empty_condition and
\* check_nested_is_null_condition (payload_storage/nested_query_checker) read
\* the point's payload and return one bit per element of the addressed array;
\* a leaf condition carries the vector the payload gives for the point.
nested_check_field_condition(field_condition, point) == field_condition.bits
check_nested_is_empty_condition(is_empty, point) == is_empty.bits
check_nested_is_null_condition(is_null, point) == is_null.bits

\* HasId answered from the id set: a one-bit match for a listed point
has_id_checker_by_id(has_id, point) ==
    IF point \in has_id.ids THEN <<TRUE>> ELSE BitVecDefault

\* Condition::HasId(_) => Box::new(move |_| BitVec::default())
has_id_checker(has_id, point) == BitVecDefault

\* The closures of a checker list cannot be passed around in TLA+: the
\* functions over a checker list take `calls`, the outcomes checker(point_id)
\* of its checkers in order, each Ok(vector) or Panic(assertion).

\* the panic that ends the iteration: the one of the first checker that panics
first_panic(calls) ==
    IF \E i \in 1..Len(calls) : calls[i].panic # ""
    THEN calls[CHOOSE i \in 1..Len(calls) :
                /\ calls[i].panic # ""
                /\ \A j \in 1..(i - 1) : calls[j].panic = ""].panic
    ELSE ""

checker_values(calls) == [i \in 1..Len(calls) |-> calls[i].val]

\* .reduce(|acc, x| acc & x) from position i on
RECURSIVE reduce_and(_, _, _)
reduce_and(acc, xs, i) ==
    IF i > Len(xs) THEN acc ELSE reduce_and(BitAnd(acc, xs[i]), xs, i + 1)

\* .reduce(|acc, x| acc | x) from position i on
RECURSIVE reduce_or(_, _, _)
reduce_or(acc, xs, i) ==
    IF i > Len(xs) THEN acc ELSE reduce_or(BitOr(acc, xs[i]), xs, i + 1)

\* match-all reduced with | in place of &
find_indices_matching_all_conditions_or(calls) ==
    LET xs == checker_values(calls)
    IN  IF first_panic(calls) # "" THEN Panic(first_panic(calls))
        ELSE IF Len(xs) = 0 THEN Ok(BitVecDefault)
        ELSE Ok(reduce_or(xs[1], xs, 2))

find_indices_matching_all_conditions(calls) ==
    LET xs == checker_values(calls)
    IN  IF first_panic(calls) # "" THEN Panic(first_panic(calls))
        ELSE IF Len(xs) = 0 THEN Ok(BitVecDefault)
        ELSE Ok(reduce_and(xs[1], xs, 2))

find_indices_matching_any_conditions(calls) ==
    LET xs == checker_values(calls)
    IN  IF first_panic(calls) # "" THEN Panic(first_panic(calls))
        ELSE IF Len(xs) = 0 THEN Ok(None)
        ELSE Ok(Some(reduce_or(xs[1], xs, 2)))

find_indices_matching_none_conditions(calls, dbg) ==
    LET any == find_indices_matching_any_conditions(calls)
    IN  IF any.panic # "" THEN any
        ELSE IF dbg /\ ~any.val.some THEN Panic("combined_mask")
        ELSE IF any.val.some THEN Ok(BitNot(any.val.val))
        ELSE Ok(BitVecDefault)

\* nested_negate taken as the logical negation of the match-all verdict
merge_nested_matching_indices_not(calls, negate, dbg) ==
    LET matches == find_indices_matching_all_conditions(calls)
    IN  IF matches.panic # "" THEN matches
        ELSE IF negate THEN Ok(~(count_ones(matches.val) > 0))
        ELSE Ok(count_ones(matches.val) > 0)

\* the two branches of nested_negate exchanged
merge_nested_matching_indices_swapped(calls, negate, dbg) ==
    IF ~negate
    THEN LET not_matching == find_indices_matching_none_conditions(calls, dbg)
         IN  IF not_matching.panic # "" THEN not_matching
             ELSE Ok(count_ones(not_matching.val) = 0)
    ELSE LET matches == find_indices_matching_all_conditions(calls)
         IN  IF matches.panic # "" THEN matches
             ELSE Ok(count_ones(matches.val) > 0)

merge_nested_matching_indices(calls, negate, dbg) ==
    IF negate
    THEN LET not_matching == find_indices_matching_none_conditions(calls, dbg)
         IN  IF not_matching.panic # "" THEN not_matching
             ELSE Ok(count_ones(not_matching.val) = 0)
    ELSE LET matches == find_indices_matching_all_conditions(calls)
         IN  IF matches.panic # "" THEN matches
             ELSE Ok(count_ones(matches.val) > 0)

\* ---------------------------------------------------------------- nested groups
\* group is the Option<Vec<Condition>> of the sub-filter, calls the outcomes of
\* the checkers nested_conditions_converter compiles from it

\* an absent must group answered with a synthetic all-true vector
check_nested_must_all_true(group, calls) ==
    IF ~group.some THEN Ok(Some([i \in 1..elems |-> TRUE]))
    ELSE LET matches == find_indices_matching_all_conditions(calls)
         IN  IF matches.panic # "" THEN matches ELSE Ok(Some(matches.val))

check_nested_must(group, calls) ==
    IF ~group.some THEN Ok(None)
    ELSE LET matches == find_indices_matching_all_conditions(calls)
         IN  IF matches.panic # "" THEN matches ELSE Ok(Some(matches.val))

\* must_not reduced with match-any: the complement left out
check_nested_must_not_any(group, calls, dbg) ==
    IF ~group.some THEN Ok(None)
    ELSE find_indices_matching_any_conditions(calls)

check_nested_must_not(group, calls, dbg) ==
    IF ~group.some THEN Ok(None)
    ELSE LET matches == find_indices_matching_none_conditions(calls, dbg)
         IN  IF matches.panic # "" THEN matches ELSE Ok(Some(matches.val))

check_nested_should(group, calls) ==
    IF ~group.some THEN Ok(None)
    ELSE find_indices_matching_any_conditions(calls)

\* if let Some(x) = x { bitvecs.push(x) }
push_some(vec, opt) == IF opt.some THEN Append(vec, opt.val) ELSE vec

\* the Vec `bitvecs` of the Nested closure once the three groups are evaluated
nested_bitvecs(nested, must_calls, must_not_calls, should_calls, dbg) ==
    LET must_matching == check_nested_must(nested.must, must_calls)
        must_not_matching == check_nested_must_not(nested.must_not, must_not_calls, dbg)
        should_matching == check_nested_should(nested.should, should_calls)
    IN  IF must_matching.panic # "" THEN must_matching
        ELSE IF must_not_matching.panic # "" THEN must_not_matching
        ELSE IF should_matching.panic # "" THEN should_matching
        ELSE Ok(push_some(push_some(push_some(<<>>, must_matching.val),
                                    must_not_matching.val),
                          should_matching.val))

\* .reduce(|acc, x| { debug_assert_eq!(acc.len(), x.len()); acc & x }) from i on
RECURSIVE reduce_bitvecs(_, _, _, _)
reduce_bitvecs(acc, xs, i, dbg) ==
    IF i > Len(xs) THEN Ok(acc)
    ELSE IF dbg /\ Len(acc) # Len(xs[i]) THEN Panic("len_eq")
    ELSE reduce_bitvecs(BitAnd(acc, xs[i]), xs, i + 1, dbg)

\* bitvecs.into_iter().reduce(..).unwrap_or_default()
combine_bitvecs(xs, dbg) ==
    IF Len(xs) = 0 THEN Ok(BitVecDefault) ELSE reduce_bitvecs(xs[1], xs, 2, dbg)

\* the conditions of a group, none when the group is absent
group_conditions(group) == IF group.some THEN group.val ELSE <<>>

\* checker(point) for checker = nested_condition_converter(cond, ..)
RECURSIVE nested_condition_converter(_, _, _)
nested_condition_converter(cond, point, dbg) ==
    CASE cond.kind = "Field" -> Ok(nested_check_field_condition(cond, point))
      [] cond.kind = "IsEmpty" -> Ok(check_nested_is_empty_condition(cond, point))
      [] cond.kind = "IsNull" -> Ok(check_nested_is_null_condition(cond, point))
      [] cond.kind = "HasId" -> Ok(has_id_checker(cond, point))
      [] cond.kind = "Nested" ->
            LET nested_conditions_converter(conditions) ==
                    [i \in 1..Len(conditions) |->
                        nested_condition_converter(conditions[i], point, dbg)]
                bv == nested_bitvecs(
                          cond,
                          nested_conditions_converter(group_conditions(cond.must)),
                          nested_conditions_converter(group_conditions(cond.must_not)),
                          nested_conditions_converter(group_conditions(cond.should)),
                          dbg)
            IN  IF bv.panic # "" THEN bv ELSE combine_bitvecs(bv.val, dbg)

\* nested_checkers.iter().map(|checker| checker(point_id)), in order
call_checkers(point, checkers, dbg) ==
    [i \in 1..Len(checkers) |-> nested_condition_converter(checkers[i], point, dbg)]

\* ---------------------------------------------------------------- inputs
BitVecs(n) == [1..n -> BOOLEAN]

RECURSIVE SumTo(_, _)
SumTo(lens, k) == IF k = 0 THEN 0 ELSE lens[k] + SumTo(lens, k - 1)

\* the i-th of the vectors of lengths lens laid end to end in flat
Slice(flat, lens, i) ==
    [j \in 1..lens[i] |-> flat[SumTo(lens, i - 1) + j]]

\* lengths of the vectors of a list of k checkers: at most MaxBits bits together
VectorLengths(k) == {l \in [1..k -> 0..MaxBits] : SumTo(l, k) <= MaxBits}

\* the list of leaf checkers whose vectors, of lengths lens, are laid end to end in flat
CheckerList(k, lens, flat) == [i \in 1..k |-> Field(Slice(flat, lens, i))]

\* id sets of the HasId conditions placed inside a sub-filter
ChildIdSets == {{}, PointIds}

EmptyNested == Nested(None, None, None)

\* the conditions placed inside the sub-filter of a Nested condition over an
\* array of n elements
Children(n) ==
    {Field(b) : b \in BitVecs(n)} \cup {HasId(s) : s \in ChildIdSets} \cup {EmptyNested}

\* a clause group: absent (size -1) or a list of `size` conditions
Group(K, size) == IF size < 0 THEN {None} ELSE {Some(l) : l \in [1..size -> K]}

Max0(x) == IF x < 0 THEN 0 ELSE x

GroupSizes ==
    {t \in [1..3 -> (-1)..MaxConds] : Max0(t[1]) + Max0(t[2]) + Max0(t[3]) <= MaxConds}

HasIdConditions == {HasId(s) : s \in SUBSET PointIds}

\* ---------------------------------------------------------------- state machine
NoCondition == [kind |-> "none"]

InitResult ==
    /\ pc = "call"
    /\ op = ""
    /\ point_id = 0
    /\ nested_negate = FALSE
    /\ verdict = FALSE
    /\ bits = <<>>
    /\ combined_mask = None
    /\ bitvecs = <<>>
    /\ assert_failed = ""

\* a list of sibling checkers, about to be merged or reduced
Init ==
    /\ InitResult
    /\ elems = 0
    /\ condition = NoCondition
    /\ \E k \in 0..MaxCheckers : \E lens \in VectorLengths(k) :
            \E flat \in BitVecs(SumTo(lens, k)) :
                nested_checkers = CheckerList(k, lens, flat)

\* a condition under a nested path, about to be evaluated for a point
InitNested ==
    /\ InitResult
    /\ nested_checkers = <<>>
    /\ elems \in 0..MaxElems
    /\ \/ condition \in HasIdConditions
       \/ \E b \in BitVecs(elems) : condition \in {Field(b), IsEmpty(b), IsNull(b)}
       \/ \E t \in GroupSizes :
            \E m \in Group(Children(elems), t[1]),
               mn \in Group(Children(elems), t[2]),
               s \in Group(Children(elems), t[3]) :
                condition = Nested(m, mn, s)

Return(r) ==
    /\ pc' = IF r.panic # "" THEN "panic" ELSE "done"
    /\ assert_failed' = r.panic

\* merged(point_id) for merged = merge_nested_matching_indices(nested_checkers, nested_negate)
Merge ==
    /\ pc = "call"
    /\ condition = NoCondition
    /\ \E negate \in BOOLEAN, point \in PointIds, dbg \in BOOLEAN :
        LET r == merge_nested_matching_indices(
                     call_checkers(point, nested_checkers, dbg), negate, dbg)
        IN  /\ op' = "merge"
            /\ nested_negate' = negate
            /\ point_id' = point
            /\ Return(r)
            /\ verdict' = IF r.panic = "" THEN r.val ELSE FALSE
    /\ UNCHANGED <<elems, nested_checkers, condition, bits, combined_mask, bitvecs>>

FindAll ==
    /\ pc = "call"
    /\ condition = NoCondition
    /\ \E point \in PointIds, dbg \in BOOLEAN :
        LET r == find_indices_matching_all_conditions(
                     call_checkers(point, nested_checkers, dbg))
        IN  /\ op' = "all"
            /\ point_id' = point
            /\ Return(r)
            /\ bits' = r.val
    /\ UNCHANGED <<elems, nested_checkers, nested_negate, condition, verdict,
                   combined_mask, bitvecs>>

FindNone ==
    /\ pc = "call"
    /\ condition = NoCondition
    /\ \E point \in PointIds, dbg \in BOOLEAN :
        LET r == find_indices_matching_none_conditions(
                     call_checkers(point, nested_checkers, dbg), dbg)
        IN  /\ op' = "none"
            /\ point_id' = point
            /\ Return(r)
            /\ bits' = r.val
    /\ UNCHANGED <<elems, nested_checkers, nested_negate, condition, verdict,
                   combined_mask, bitvecs>>

FindAny ==
    /\ pc = "call"
    /\ condition = NoCondition
    /\ \E point \in PointIds, dbg \in BOOLEAN :
        LET r == find_indices_matching_any_conditions(
                     call_checkers(point, nested_checkers, dbg))
        IN  /\ op' = "any"
            /\ point_id' = point
            /\ Return(r)
            /\ combined_mask' = IF r.panic = "" THEN r.val ELSE None
    /\ UNCHANGED <<elems, nested_checkers, nested_negate, condition, verdict,
                   bits, bitvecs>>

\* checker(point_id) for checker = nested_condition_converter(condition), a leaf
\* or HasId condition
ConvertLeaf ==
    /\ pc = "call"
    /\ condition.kind \in {"Field", "IsEmpty", "IsNull", "HasId"}
    /\ \E point \in PointIds, dbg \in BOOLEAN :
        LET r == nested_condition_converter(condition, point, dbg)
        IN  /\ op' = "convert"
            /\ point_id' = point
            /\ Return(r)
            /\ bits' = r.val
    /\ UNCHANGED <<elems, nested_checkers, nested_negate, condition, verdict,
                   combined_mask, bitvecs>>

\* checker(point_id) for checker = nested_condition_converter(condition), a
\* Nested condition
ConvertNested ==
    /\ pc = "call"
    /\ condition.kind = "Nested"
    /\ \E point \in PointIds, dbg \in BOOLEAN :
        LET bv == nested_bitvecs(
                      condition,
                      call_checkers(point, group_conditions(condition.must), dbg),
                      call_checkers(point, group_conditions(condition.must_not), dbg),
                      call_checkers(point, group_conditions(condition.should), dbg),
                      dbg)
            r == nested_condition_converter(condition, point, dbg)
        IN  /\ op' = "convert"
            /\ point_id' = point
            /\ Return(r)
            /\ bits' = r.val
            /\ bitvecs' = IF bv.panic = "" THEN bv.val ELSE <<>>
    /\ UNCHANGED <<elems, nested_checkers, nested_negate, condition, verdict,
                   combined_mask>>

Next == Merge \/ FindAll \/ FindNone \/ FindAny

NextNested == ConvertLeaf \/ ConvertNested

Spec == Init /\ [][Next]_vars

SpecNested == InitNested /\ [][NextNested]_vars

\* ---------------------------------------------------------------- properties
F == FALSE
T == TRUE

\* the vectors the checkers of a list of leaf checkers return
Vectors(cs) == [k \in 1..Len(cs) |-> cs[k].bits]

EqualLength(vs) == \A i, j \in 1..Len(vs) : Len(vs[i]) = Len(vs[j])

Merged == pc = "done" /\ op = "merge"

\* C1: for a non-empty list of checkers returning equal-length vectors, the
\* merge with negate = false is true iff at some element position every
\* checker's bit is set; [1,0],[1,0],[0,1] gives false, [1,1],[1,1],[1,0] true.
C1_MatchAllVerdict ==
    LET vs == Vectors(nested_checkers)
    IN  /\ (Merged /\ ~nested_negate /\ vs # <<>> /\ EqualLength(vs))
              => (verdict <=> \E i \in 1..Len(vs[1]) : \A k \in 1..Len(vs) : vs[k][i])
        /\ (Merged /\ ~nested_negate /\ vs = <<<<T, F>>, <<T, F>>, <<F, T>>>>) => ~verdict
        /\ (Merged /\ ~nested_negate /\ vs = <<<<T, T>>, <<T, T>>, <<T, F>>>>) => verdict

C1_Witness ==
    /\ Merged /\ ~nested_negate
    /\ Vectors(nested_checkers) = <<<<T, T>>, <<T, T>>, <<T, F>>>>
    /\ verdict

\* C2: for a non-empty list of checkers returning equal-length vectors, the
\* merge with negate = true is true iff every element position is matched by
\* at least one checker; for a single checker whose vector has a set bit,
\* negate = false gives true and negate = true gives true iff every position
\* of the vector is set.
C2_NegatedVerdict ==
    LET vs == Vectors(nested_checkers)
    IN  /\ (Merged /\ nested_negate /\ vs # <<>> /\ EqualLength(vs))
              => (verdict <=> \A i \in 1..Len(vs[1]) : \E k \in 1..Len(vs) : vs[k][i])
        /\ (Merged /\ Len(vs) = 1 /\ (\E i \in 1..Len(vs[1]) : vs[1][i]))
              => IF nested_negate
                 THEN verdict <=> \A i \in 1..Len(vs[1]) : vs[1][i]
                 ELSE verdict

\* the negated verdict is true where the non-negated verdict is true as well
C2_Witness ==
    /\ Merged /\ nested_negate
    /\ Vectors(nested_checkers) = <<<<T, T>>>>
    /\ verdict
    /\ merge_nested_matching_indices(
           call_checkers(point_id, nested_checkers, FALSE), FALSE, FALSE).val

\* C3 as it is stated: a single checker returning [false,false,false] gives
\* verdict false with negate = false and true with negate = true, and with a
\* single checker the negated verdict is true only if all positions are false.
C3_AllFalseNegatedTrue ==
    LET vs == Vectors(nested_checkers)
    IN  /\ (Merged /\ vs = <<<<F, F, F>>>>) => (verdict = nested_negate)
        /\ (Merged /\ nested_negate /\ Len(vs) = 1 /\ verdict)
              => \A i \in 1..Len(vs[1]) : ~vs[1][i]

\* C3, amended: a single checker returning [false,false,false] gives verdict
\* false with negate = false and false with negate = true, and with a single
\* checker the negated verdict is true only if all positions are true.
C3_AllFalseNegatedFalse ==
    LET vs == Vectors(nested_checkers)
    IN  /\ (Merged /\ vs = <<<<F, F, F>>>>) => ~verdict
        /\ (Merged /\ nested_negate /\ Len(vs) = 1 /\ verdict)
              => \A i \in 1..Len(vs[1]) : vs[1][i]

C3_Witness ==
    /\ Merged /\ nested_negate
    /\ Vectors(nested_checkers) = <<<<F, F, F>>>>
    /\ ~verdict

\* C4: when every checker of a non-empty list returns the empty vector,
\* match-all and match-none return the empty vector and the merge gives
\* false with negate = false and true with negate = true.
C4_EmptyArray ==
    LET vs == Vectors(nested_checkers)
    IN  (pc = "done" /\ vs # <<>> /\ \A k \in 1..Len(vs) : vs[k] = <<>>)
            => /\ op \in {"all", "none"} => bits = <<>>
               /\ op = "merge" => (verdict = nested_negate)

C4_Witness ==
    /\ Merged /\ nested_negate
    /\ Vectors(nested_checkers) = <<<<>>, <<>>, <<>>>>
    /\ verdict

\* every permutation of 1..k
Permutations(k) == {p \in [1..k -> 1..k] : \A i, j \in 1..k : p[i] = p[j] => i = j}

Permuted(cs, p) == [i \in 1..Len(cs) |-> cs[p[i]]]

\* C6: for every permutation of the checker list match-all returns the same
\* vector and match-any the same result, lists with vectors of different
\* lengths included.
C6_OrderIndependent ==
    \A p \in Permutations(Len(nested_checkers)) :
        /\ (pc = "done" /\ op = "all")
              => find_indices_matching_all_conditions(
                     call_checkers(point_id, Permuted(nested_checkers, p), FALSE)).val = bits
        /\ (pc = "done" /\ op = "any")
              => find_indices_matching_any_conditions(
                     call_checkers(point_id, Permuted(nested_checkers, p), FALSE)).val
                 = combined_mask

\* the same for lists whose vectors have one length
SameLengthOrderIndependent ==
    EqualLength(Vectors(nested_checkers)) => C6_OrderIndependent

Converted == pc = "done" /\ op = "convert"

\* C5: a Nested condition with must = [A], must_not = [B] and no should group,
\* where A and B yield vectors of one length n, yields the vector of length n
\* whose bit i is A[i] and not B[i].
C5_MustAndNotMustNot ==
    (/\ Converted /\ condition.kind = "Nested"
     /\ condition.must.some /\ Len(condition.must.val) = 1
     /\ condition.must_not.some /\ Len(condition.must_not.val) = 1
     /\ ~condition.should.some)
        => LET a == nested_condition_converter(condition.must.val[1], point_id, FALSE).val
               b == nested_condition_converter(condition.must_not.val[1], point_id, FALSE).val
           IN  Len(a) = Len(b) => bits = [i \in 1..Len(a) |-> a[i] /\ ~b[i]]

C5_Witness ==
    /\ Converted
    /\ condition = Nested(Some(<<Field(<<T, T>>)>>), Some(<<Field(<<F, T>>)>>), None)
    /\ bits = <<T, F>>

\* C7: the checker compiled from a HasId condition returns the empty vector
\* for every point id and every id set, points listed in the id set included.
C7_HasIdEmpty ==
    (op = "convert" /\ condition.kind = "HasId") => (pc = "done" /\ bits = <<>>)

C7_Witness ==
    /\ Converted /\ condition.kind = "HasId"
    /\ point_id \in condition.ids
    /\ bits = <<>>

\* C8: for every Nested condition and point the group vectors entering the
\* final reduce all have one length, that of the addressed array, so
\* debug_assert_eq!(acc.len(), x.len()) never fails; stated here for the
\* sub-filters whose must_not group is absent or not empty, a must list that
\* is present but empty and groups holding HasId included.
C8_GroupVectorsSameLength ==
    (/\ op = "convert" /\ condition.kind = "Nested"
     /\ ~(condition.must_not.some /\ condition.must_not.val = <<>>))
        => /\ assert_failed # "len_eq"
           /\ EqualLength(bitvecs)

\* C9: match-none is the position-wise complement of match-any, and the
\* assertion combined_mask.is_some() holds in every evaluation of a Nested
\* sub-filter whose must_not group is present.
C9_MatchNoneNeverEmpty ==
    (op = "convert" /\ condition.kind = "Nested" /\ condition.must_not.some)
        => /\ assert_failed # "combined_mask"
           /\ (pc = "done" /\ condition.must_not.val # <<>>) =>
                LET any == find_indices_matching_any_conditions(
                               call_checkers(point_id, condition.must_not.val, FALSE)).val
                    at == IF condition.must.some THEN 2 ELSE 1
                IN  /\ Len(bitvecs[at]) = Len(any.val)
                    /\ \A i \in 1..Len(any.val) : bitvecs[at][i] = ~any.val[i]

\* the results of the groups that give one, in the order must, must_not, should
C10_GroupResults ==
    LET must == find_indices_matching_all_conditions(
                    call_checkers(point_id, condition.must.val, FALSE)).val
        must_not == find_indices_matching_none_conditions(
                        call_checkers(point_id, condition.must_not.val, FALSE), FALSE).val
        should == find_indices_matching_any_conditions(
                        call_checkers(point_id, condition.should.val, FALSE)).val
    IN  (IF condition.must.some THEN <<must>> ELSE <<>>)
        \o (IF condition.must_not.some THEN <<must_not>> ELSE <<>>)
        \o (IF condition.should.some /\ should.some THEN <<should.val>> ELSE <<>>)

\* C10: the result of a Nested condition is the AND-reduction of exactly the
\* group results that are present among must (match-all), must_not
\* (match-none) and should (match-any); no all-true vector stands in for an
\* absent group, and with no group present the result is the empty vector.
C10_AndOfPresentGroups ==
    (Converted /\ condition.kind = "Nested")
        => /\ bitvecs = C10_GroupResults
           /\ Len(bits) = (IF bitvecs = <<>> THEN 0 ELSE Len(bitvecs[1]))
           /\ \A i \in 1..Len(bits) :
                bits[i] <=> \A k \in 1..Len(bitvecs) : i <= Len(bitvecs[k]) /\ bitvecs[k][i]
           /\ (~condition.must.some /\ ~condition.must_not.some /\ ~condition.should.some)
                => bits = <<>>

C10_Witness ==
    /\ Converted /\ condition.kind = "Nested"
    /\ ~condition.must.some
    /\ condition.must_not.some /\ condition.must_not.val # <<>>
    /\ condition.should.some /\ condition.should.val # <<>>
    /\ Len(bitvecs) = 2
    /\ elems = MaxElems
    /\ \E i \in 1..Len(bits) : bits[i]

====
